---- MODULE Spec2Model ----
(***************************************************************************)
(* A model of storm's repository registry (src/repo.rs) and of the typed   *)
(* configuration load/save it goes through (src/config.rs).               *)
(*                                                                         *)
(* Spec     a RepoConfig object on which list, add, remove, rename and     *)
(*          set_default are called one after the other, starting from any  *)
(*          registry a configuration file can deserialize to.              *)
(* SpecCmd  the `storm repo ...` commands: each one loads the              *)
(*          configuration file, calls one RepoConfig method and saves.     *)
(* SpecClean  as Spec, from registries without dangling or repeated        *)
(*          defaults.                                                      *)
(* SpecCfg  the `storm config` get, set and unset commands on one file.    *)
(* SpecMixed  the repo commands and config get/set/unset/reset on one      *)
(*          file.                                                          *)
(* SpecSave  config set on keys that can put a value into an array, where  *)
(*          serializing may fail.                                          *)
(* SpecNames  the repo commands from no file, with the name "default".     *)
(* SpecRace  two repo commands at the same time on one file.               *)
(***************************************************************************)
EXTENDS Naturals, Sequences, FiniteSets, TLC

VARIABLES
    repos,            \* RepoConfig.repos: name -> Repo
    default_repos,    \* RepoConfig.default_repos: Vec<String>
    result,           \* what the last call returned: "Ok", an error, or "Panic"
    op,               \* the last call and its arguments
    prev_repos,       \* repos as the last call found it
    prev_default,     \* default_repos as the last call found it
    listed,           \* what the last list call returned
    start_consistent, \* whether the registry the run started from had no dangling default
    file,             \* the configuration file (SpecCmd): Absent or its document
    prev_file,        \* the configuration file as the last command found it
    procs             \* SpecRace: where each of two concurrent commands is, and
                      \* the order of their steps

vars == <<repos, default_repos, result, op, prev_repos, prev_default, listed,
          start_consistent, file, prev_file, procs>>

---------------------------------------------------------------------------
(* Bounds and input sets *)

\* longest default_repos list a run starts from
MaxDefaults == 2

\* repository names, in the order of Rust's Ord for str
NameOrder == <<"a", "b", "dummy">>

Names == {NameOrder[i] : i \in 1..Len(NameOrder)}

---------------------------------------------------------------------------
(* Backend records: enum Repo, tagged by "type" *)

DummyRepo == [type |-> "dummy"]

GentooRepo == [type |-> "gentoo", location |-> "/var/db/repos/gentoo",
               sync_type |-> "rsync", sync_uri |-> "rsync://rsync.gentoo.org/gentoo-portage"]

Repo == {DummyRepo, GentooRepo}

\* dummy::run: the constructor behind `repo add <name> dummy`
dummy_run == DummyRepo

\* the backend kinds `repo add` knows, each with what its constructor returns
ADD_SUBCOMMANDS == [dummy |-> dummy_run]

---------------------------------------------------------------------------
(* Helpers standing for the standard library *)

EmptyMap == [k \in {} |-> DummyRepo]

\* HashMap::insert
MapInsert(m, k, v) == [x \in (DOMAIN m) \cup {k} |-> IF x = k THEN v ELSE m[x]]

\* HashMap::remove (the map that is left)
MapRemove(m, k) == [x \in (DOMAIN m) \ {k} |-> m[x]]

\* Vec::retain(|r| r != name)
Retain(s, name) == SelectSeq(s, LAMBDA r : r # name)

Rank(n) == CHOOSE i \in 1..Len(NameOrder) : NameOrder[i] = n

RECURSIVE InsertSorted(_, _)
InsertSorted(s, x) ==
    IF s = <<>> THEN <<x>>
    ELSE IF Rank(x) <= Rank(Head(s)) THEN <<x>> \o s
    ELSE <<Head(s)>> \o InsertSorted(Tail(s), x)

\* slice::sort_unstable on names
RECURSIVE sort_unstable(_)
sort_unstable(s) ==
    IF s = <<>> THEN <<>> ELSE InsertSorted(sort_unstable(Tail(s)), Head(s))

\* the orders in which a HashMap may hand out its keys
KeyOrders(S) ==
    {s \in [1..Cardinality(S) -> S] : \A i, j \in 1..Cardinality(S) : s[i] = s[j] => i = j}

Out(r, d, res) == [repos |-> r, default_repos |-> d, result |-> res]

---------------------------------------------------------------------------
(* impl RepoConfig *)

\* drops only the first occurrence of name
RECURSIVE RemoveFirst(_, _)
RemoveFirst(s, name) ==
    IF s = <<>> THEN <<>>
    ELSE IF Head(s) = name THEN Tail(s)
    ELSE <<Head(s)>> \o RemoveFirst(Tail(s), name)

\* list that leaves the default list alone whatever sort says
RepoConfig_list_unsorted_default(d, keys, sort, only_default) ==
    IF only_default THEN d
    ELSE IF sort THEN sort_unstable(keys) ELSE keys

\* RepoConfig::list, given the order in which repos.keys() comes out
RepoConfig_list(d, keys, sort, only_default) ==
    LET names == IF only_default THEN d ELSE keys
    IN  IF sort THEN sort_unstable(names) ELSE names

\* main.rs run_subcommand over ADD_SUBCOMMANDS
run_subcommand_add(kind) ==
    IF kind \in DOMAIN ADD_SUBCOMMANDS
    THEN [result |-> "Ok", repo |-> ADD_SUBCOMMANDS[kind]]
    ELSE [result |-> "Panic", repo |-> DummyRepo]

\* add that refuses a name already in use
RepoConfig_add_no_overwrite(r, d, name, kind, default, first) ==
    IF name \in DOMAIN r THEN Out(r, d, "NameAlreadyExists")
    ELSE Out(MapInsert(r, name, run_subcommand_add(kind).repo), d, "Ok")

\* RepoConfig::add(name, args); args carries the kind and the --default and
\* --precedence flags of the command line
RepoConfig_add(r, d, name, kind, default, first) ==
    LET made == run_subcommand_add(kind)
    IN  IF made.result # "Ok" THEN Out(r, d, made.result)
        ELSE Out(MapInsert(r, name, made.repo), d, "Ok")

\* remove that forgets the default list
RepoConfig_remove_keeps_default(r, d, name) ==
    IF name \notin DOMAIN r THEN Out(r, d, "NoSuchRepo")
    ELSE Out(MapRemove(r, name), d, "Ok")

\* remove that prunes one occurrence only
RepoConfig_remove_first_only(r, d, name) ==
    IF name \notin DOMAIN r THEN Out(r, d, "NoSuchRepo")
    ELSE Out(MapRemove(r, name), RemoveFirst(d, name), "Ok")

\* remove that prunes the default list before it looks the name up
RepoConfig_remove_prunes_absent(r, d, name) ==
    IF name \notin DOMAIN r THEN Out(r, Retain(d, name), "NoSuchRepo")
    ELSE Out(MapRemove(r, name), Retain(d, name), "Ok")

RepoConfig_remove(r, d, name) ==
    IF name \notin DOMAIN r THEN Out(r, d, "NoSuchRepo")
    ELSE Out(MapRemove(r, name), Retain(d, name), "Ok")

\* rename that moves the renamed default to the back of the list
RepoConfig_rename_appends(r, d, old_name, new_name) ==
    IF old_name \notin DOMAIN r THEN Out(r, d, "NoSuchRepo")
    ELSE LET r2 == MapInsert(MapRemove(r, old_name), new_name, r[old_name])
         IN  IF new_name \in DOMAIN MapRemove(r, old_name)
             THEN Out(r2, d, "Panic")
             ELSE Out(r2,
                      IF \E i \in DOMAIN d : d[i] = old_name
                      THEN Append(Retain(d, old_name), new_name) ELSE d,
                      "Ok")

\* rename that overwrites an existing new_name instead of panicking
RepoConfig_rename_overwrites(r, d, old_name, new_name) ==
    IF old_name \notin DOMAIN r THEN Out(r, d, "NoSuchRepo")
    ELSE Out(MapInsert(MapRemove(r, old_name), new_name, r[old_name]),
             [i \in DOMAIN d |-> IF d[i] = old_name THEN new_name ELSE d[i]],
             "Ok")

\* rename that looks for new_name before it takes old_name out
RepoConfig_rename_checks_first(r, d, old_name, new_name) ==
    IF old_name \notin DOMAIN r THEN Out(r, d, "NoSuchRepo")
    ELSE IF new_name \in DOMAIN r
    THEN Out(MapInsert(MapRemove(r, old_name), new_name, r[old_name]), d, "Panic")
    ELSE Out(MapInsert(MapRemove(r, old_name), new_name, r[old_name]),
             [i \in DOMAIN d |-> IF d[i] = old_name THEN new_name ELSE d[i]],
             "Ok")

RepoConfig_rename(r, d, old_name, new_name) ==
    IF old_name \notin DOMAIN r THEN Out(r, d, "NoSuchRepo")
    ELSE LET repo == r[old_name]
             r1   == MapRemove(r, old_name)
             r2   == MapInsert(r1, new_name, repo)
         IN  IF new_name \in DOMAIN r1
             THEN Out(r2, d, "Panic")
             ELSE Out(r2,
                      [i \in DOMAIN d |-> IF d[i] = old_name THEN new_name ELSE d[i]],
                      "Ok")

\* set_default with front and back swapped
RepoConfig_set_default_swapped(r, d, name, default, first) ==
    IF name \notin DOMAIN r THEN Out(r, d, "NoSuchRepo")
    ELSE LET d1 == Retain(d, name)
         IN  IF default
             THEN IF first THEN Out(r, Append(d1, name), "Ok")
                           ELSE Out(r, <<name>> \o d1, "Ok")
             ELSE Out(r, d1, "Ok")

\* set_default that does not drop the old occurrences before inserting
RepoConfig_set_default_no_retain(r, d, name, default, first) ==
    IF name \notin DOMAIN r THEN Out(r, d, "NoSuchRepo")
    ELSE IF default
         THEN IF first THEN Out(r, <<name>> \o d, "Ok")
                       ELSE Out(r, Append(d, name), "Ok")
         ELSE Out(r, Retain(d, name), "Ok")

\* set_default that makes name the only default
RepoConfig_set_default_resets(r, d, name, default, first) ==
    IF name \notin DOMAIN r THEN Out(r, d, "NoSuchRepo")
    ELSE Out(r, IF default THEN <<name>> ELSE <<>>, "Ok")

RepoConfig_set_default(r, d, name, default, first) ==
    IF name \notin DOMAIN r THEN Out(r, d, "NoSuchRepo")
    ELSE LET d1 == Retain(d, name)
         IN  IF default
             THEN IF first THEN Out(r, <<name>> \o d1, "Ok")
                           ELSE Out(r, Append(d1, name), "Ok")
             ELSE Out(r, d1, "Ok")

---------------------------------------------------------------------------
(* Spec: calls on one RepoConfig *)

Call(cmd, name, new_name, default, first, sort, only_default) ==
    [cmd |-> cmd, name |-> name, new_name |-> new_name, default |-> default,
     first |-> first, sort |-> sort, only_default |-> only_default]

NoCall == Call("init", "", "", FALSE, FALSE, FALSE, FALSE)

Consistent(r, d) == \A i \in DOMAIN d : d[i] \in DOMAIN r

RepoMaps == UNION {[S -> Repo] : S \in SUBSET Names}

NameLists == UNION {[1..n -> Names] : n \in 0..MaxDefaults}

Absent == [tag |-> "Absent"]

\* the commands that may run at the same time (SpecRace), none started
Procs == {1, 2}

NoProcs ==
    [of |-> [p \in Procs |-> [pc |-> "start", cmd |-> "", name |-> "", read |-> Absent,
                              doc |-> Absent, result |-> "Ok"]],
     events |-> <<>>]

Init ==
    /\ procs = NoProcs
    /\ repos \in RepoMaps
    /\ default_repos \in NameLists
    /\ result = "Ok"
    /\ op = NoCall
    /\ prev_repos = repos
    /\ prev_default = default_repos
    /\ listed = <<>>
    /\ start_consistent = Consistent(repos, default_repos)
    /\ file = Absent
    /\ prev_file = Absent

\* a panic aborts the process: nothing is called after it
Running == result # "Panic"

Returns(o, out) ==
    /\ Running
    /\ repos' = out.repos
    /\ default_repos' = out.default_repos
    /\ result' = out.result
    /\ op' = o
    /\ prev_repos' = repos
    /\ prev_default' = default_repos
    /\ listed' = <<>>
    /\ UNCHANGED <<start_consistent, file, prev_file, procs>>

List(sort, only_default) ==
    /\ Running
    /\ \E keys \in (IF only_default THEN {<<>>} ELSE KeyOrders(DOMAIN repos)) :
          listed' = RepoConfig_list(default_repos, keys, sort, only_default)
    /\ op' = Call("list", "", "", FALSE, FALSE, sort, only_default)
    /\ result' = "Ok"
    /\ prev_repos' = repos
    /\ prev_default' = default_repos
    /\ UNCHANGED <<repos, default_repos, start_consistent, file, prev_file, procs>>

Add(name) ==
    Returns(Call("add", name, "", FALSE, FALSE, FALSE, FALSE),
            RepoConfig_add(repos, default_repos, name, "dummy", FALSE, FALSE))

Remove(name) ==
    Returns(Call("remove", name, "", FALSE, FALSE, FALSE, FALSE),
            RepoConfig_remove(repos, default_repos, name))

Rename(old_name, new_name) ==
    Returns(Call("rename", old_name, new_name, FALSE, FALSE, FALSE, FALSE),
            RepoConfig_rename(repos, default_repos, old_name, new_name))

SetDefault(name, default, first) ==
    Returns(Call("set_default", name, "", default, first, FALSE, FALSE),
            RepoConfig_set_default(repos, default_repos, name, default, first))

Next ==
    \/ \E sort, only_default \in BOOLEAN : List(sort, only_default)
    \/ \E name \in Names : Add(name)
    \/ \E name \in Names : Remove(name)
    \/ \E old_name, new_name \in Names : Rename(old_name, new_name)
    \/ \E name \in Names, default, first \in BOOLEAN : SetDefault(name, default, first)

Spec == Init /\ [][Next]_vars

\* no name is in s twice
NoRepeat(s) == \A i, j \in DOMAIN s : s[i] = s[j] => i = j

\* SpecClean: the same calls, starting from the registries whose default list
\* names keys of repos only and no name twice
InitClean ==
    /\ Init
    /\ Consistent(repos, default_repos)
    /\ NoRepeat(default_repos)

SpecClean == InitClean /\ [][Next]_vars

---------------------------------------------------------------------------
(* The configuration document: toml::Value, and the typed Config *)

Str(x)  == [tag |-> "String",  val |-> x]
Bool(x) == [tag |-> "Boolean", val |-> x]
Int(x)  == [tag |-> "Integer", val |-> x]
Arr(x)  == [tag |-> "Array",   val |-> x]
Tbl(x)  == [tag |-> "Table",   val |-> x]

IsTable(v) == v.tag = "Table"

HasKey(v, k) == IsTable(v) /\ k \in DOMAIN v.val

\* enum SandboxConfig, rename_all = "lowercase"
SandboxConfig == {"chroot", "firecracker", "crosvm"}

\* impl Default for SandboxConfig
SandboxConfig_default == "chroot"

\* #[derive(Default)] for CliConfig
CliConfig_default == [prompt |-> FALSE]

\* RepoConfig::default() with a "dummy" repository in it
RepoConfig_default_with_dummy ==
    [default_repos |-> <<"dummy">>, repos |-> [k \in {"dummy"} |-> DummyRepo]]

\* #[derive(Default)] for RepoConfig
RepoConfig_default == [default_repos |-> <<>>, repos |-> EmptyMap]

\* #[derive(Default)] for Config
Config_default ==
    [cli |-> CliConfig_default, sandbox |-> SandboxConfig_default,
     repo |-> RepoConfig_default]

\* Serialize for Repo: tag = "type"; GentooRepo's fields in kebab-case
Repo_to_Value(repo) ==
    IF repo.type = "dummy" THEN Tbl([type |-> Str("dummy")])
    ELSE Tbl(("type" :> Str("gentoo")) @@ ("location" :> Str(repo.location))
             @@ ("sync-type" :> Str(repo.sync_type))
             @@ ("sync-uri" :> Str(repo.sync_uri)))

\* Serialize for RepoConfig: default_repos under the key "default", the
\* repositories flattened beside it (no repository is called "default" here)
RepoConfig_to_Value(rc) ==
    Tbl(("default" :> Arr([i \in DOMAIN rc.default_repos |-> Str(rc.default_repos[i])]))
        @@ [n \in DOMAIN rc.repos |-> Repo_to_Value(rc.repos[n])])

\* Serialize for Config
Config_to_Value(c) ==
    Tbl([cli     |-> Tbl([prompt |-> Bool(c.cli.prompt)]),
         sandbox |-> Tbl([type |-> Str(c.sandbox)]),
         repo    |-> RepoConfig_to_Value(c.repo)])

SyncType == {"cvs", "git", "rsync", "svn", "webrsync"}

IsStr(v) == v.tag = "String"

\* Deserialize for Repo succeeds
Repo_ok(v) ==
    /\ HasKey(v, "type")
    /\ IsStr(v.val["type"])
    /\ \/ v.val["type"].val = "dummy"
       \/ /\ v.val["type"].val = "gentoo"
          /\ \A k \in {"location", "sync-type", "sync-uri"} :
                HasKey(v, k) /\ IsStr(v.val[k])
          /\ v.val["sync-type"].val \in SyncType

Repo_from_Value(v) ==
    IF v.val["type"].val = "dummy" THEN DummyRepo
    ELSE [type |-> "gentoo", location |-> v.val["location"].val,
          sync_type |-> v.val["sync-type"].val, sync_uri |-> v.val["sync-uri"].val]

\* string_or_seq succeeds: a string, or an array of strings
string_or_seq_ok(v) ==
    \/ IsStr(v)
    \/ v.tag = "Array" /\ \A i \in DOMAIN v.val : IsStr(v.val[i])

\* string_or_seq: a single string is read as an array of one string
string_or_seq(v) ==
    IF IsStr(v) THEN <<v.val>> ELSE [i \in DOMAIN v.val |-> v.val[i].val]

\* Deserialize for RepoConfig succeeds: "default" is required, every other
\* key is a repository
RepoConfig_ok(v) ==
    /\ HasKey(v, "default")
    /\ string_or_seq_ok(v.val["default"])
    /\ \A n \in (DOMAIN v.val) \ {"default"} : Repo_ok(v.val[n])

RepoConfig_from_Value(v) ==
    [default_repos |-> string_or_seq(v.val["default"]),
     repos |-> [n \in (DOMAIN v.val) \ {"default"} |-> Repo_from_Value(v.val[n])]]

CliConfig_ok(v) == HasKey(v, "prompt") /\ v.val["prompt"].tag = "Boolean"

SandboxConfig_ok(v) ==
    HasKey(v, "type") /\ IsStr(v.val["type"]) /\ v.val["type"].val \in SandboxConfig

\* Value::try_into::<Config> succeeds; #[serde(default)]: a missing section
\* is not an error, an unknown one is ignored
Config_ok(v) ==
    /\ IsTable(v)
    /\ HasKey(v, "cli") => CliConfig_ok(v.val["cli"])
    /\ HasKey(v, "sandbox") => SandboxConfig_ok(v.val["sandbox"])
    /\ HasKey(v, "repo") => RepoConfig_ok(v.val["repo"])

Config_from_Value(v) ==
    [cli     |-> IF HasKey(v, "cli") THEN [prompt |-> v.val["cli"].val["prompt"].val]
                 ELSE CliConfig_default,
     sandbox |-> IF HasKey(v, "sandbox") THEN v.val["sandbox"].val["type"].val
                 ELSE SandboxConfig_default,
     repo    |-> IF HasKey(v, "repo") THEN RepoConfig_from_Value(v.val["repo"])
                 ELSE RepoConfig_default]

\* a configuration file that exists and cannot be read
Unreadable == [tag |-> "Unreadable"]

\* fs::read_to_string; the text of a file is modelled by the Value it parses to
read_to_string(f) ==
    IF f = Absent THEN [result |-> "NotFound", text |-> f]
    ELSE IF f = Unreadable THEN [result |-> "IoError", text |-> f]
    ELSE [result |-> "Ok", text |-> f]

\* a text in which the table repo has the key "default" twice: the default
\* list and a repository of that name; doc is what was serialized
DuplicateKey(doc) == [tag |-> "DuplicateKey", val |-> doc]

\* a text that is the start of one written document over the end of a
\* longer one
Garbled == [tag |-> "Garbled"]

\* toml::from_str(&s): a key given twice is a parse error, and so is a text
\* pieced together from two documents
from_str(text) ==
    IF text.tag \in {"DuplicateKey", "Garbled"}
    THEN [result |-> "TomlError", value |-> text]
    ELSE [result |-> "Ok", value |-> text]

\* load_raw that propagates NotFound like any other read error
load_raw_not_found_fails(f) ==
    LET read == read_to_string(f)
    IN  IF read.result = "Ok" THEN from_str(read.text)
        ELSE [result |-> read.result, value |-> read.text]

\* Config::load_raw: a missing file reads as the default configuration, any
\* other read error is returned
load_raw(f) ==
    LET read == read_to_string(f)
    IN  IF read.result = "Ok" THEN from_str(read.text)
        ELSE IF read.result = "NotFound"
        THEN [result |-> "Ok", value |-> Config_to_Value(Config_default)]
        ELSE [result |-> read.result, value |-> read.text]

\* Config::load
Config_load(f) ==
    LET raw == load_raw(f)
    IN  IF raw.result # "Ok" THEN [result |-> raw.result, config |-> Config_default]
        ELSE IF Config_ok(raw.value)
        THEN [result |-> "Ok", config |-> Config_from_Value(raw.value)]
        ELSE [result |-> "SchemaMismatch", config |-> Config_default]

\* some array in v holds values of two types
RECURSIVE HasMixedArray(_)
HasMixedArray(v) ==
    IF v.tag = "Table" THEN \E k \in DOMAIN v.val : HasMixedArray(v.val[k])
    ELSE IF v.tag = "Array"
    THEN \/ \E i, j \in DOMAIN v.val : v.val[i].tag # v.val[j].tag
         \/ \E i \in DOMAIN v.val : HasMixedArray(v.val[i])
    ELSE FALSE

\* toml::to_string_pretty(&config): how it can return. The toml crate is not
\* pinned by the sources; its serializer rejects an array of mixed types in
\* some releases (ser::Error::ArrayMixedType) and writes it in others.
to_string_pretty(v) ==
    IF HasMixedArray(v) THEN {"Ok", "SerializeError"} ELSE {"Ok"}

\* the file after OpenOptions .. truncate(true) .. open: no text
EmptyFile == Tbl([k \in {} |-> Absent])

\* a save that writes the sections of the schema only
save_raw_schema_only(v, ser) ==
    Tbl([k \in DOMAIN v.val \cap {"cli", "sandbox", "repo"} |-> v.val[k]])

\* Config::save_raw when to_string_pretty returns ser: the file is opened
\* and truncated, then it holds the serialized document, which load_raw
\* reads back as the same toml::Value, or `?` returns the error and the
\* file stays empty
save_raw(v, ser) == IF ser = "Ok" THEN v ELSE EmptyFile

\* toml::to_string_pretty(&Config): the serializer writes the entries of
\* RepoConfig as they come, "default" and then every repository, and does
\* not look for a key it has written already
Config_to_string(c) ==
    IF "default" \in DOMAIN c.repo.repos THEN DuplicateKey(Config_to_Value(c))
    ELSE Config_to_Value(c)

\* Config::save: the file now holds the serialized Config (every array of a
\* Config is a Vec<String>, so serializing does not fail)
Config_save(c) == save_raw(Config_to_string(c), "Ok")

---------------------------------------------------------------------------
(* The path resolver and the `storm config` commands (src/config.rs) *)

\* Table::new()
Table_new == [k \in {} |-> Absent]

\* str::parse::<usize> on the path segments used here; any other segment is
\* not a number
UsizeText == ("0" :> 0) @@ ("2" :> 2)

usize_parse(leaf) ==
    IF leaf \in DOMAIN UsizeText THEN [ok |-> TRUE, n |-> UsizeText[leaf]]
    ELSE [ok |-> FALSE, n |-> 0]

Found(ok, root, value) == [ok |-> ok, root |-> root, value |-> value]

\* find_key that turns a scalar in its way into a table when create is set
RECURSIVE find_key_over_scalars(_, _, _)
find_key_over_scalars(ptr, path, create) ==
    IF path = <<>> THEN Found(TRUE, ptr, ptr)
    ELSE LET leaf == Head(path)
             tbl == IF ptr.tag = "Table" THEN ptr.val ELSE Table_new
             tbl1 == IF create /\ leaf \notin DOMAIN tbl
                     THEN MapInsert(tbl, leaf, Tbl(Table_new)) ELSE tbl
         IN  IF (ptr.tag # "Table" /\ ~create) \/ leaf \notin DOMAIN tbl1
             THEN Found(FALSE, ptr, ptr)
             ELSE LET sub == find_key_over_scalars(tbl1[leaf], Tail(path), create)
                  IN  Found(sub.ok, Tbl([tbl1 EXCEPT ![leaf] = sub.root]), sub.value)

\* find_key that inserts missing tables whatever create says
RECURSIVE find_key_always_creates(_, _, _)
find_key_always_creates(ptr, path, create) ==
    IF path = <<>> THEN Found(TRUE, ptr, ptr)
    ELSE LET leaf == Head(path)
         IN  IF ptr.tag = "Table"
             THEN LET tbl == IF leaf \notin DOMAIN ptr.val
                             THEN MapInsert(ptr.val, leaf, Tbl(Table_new))
                             ELSE ptr.val
                      sub == find_key_always_creates(tbl[leaf], Tail(path), create)
                  IN  Found(sub.ok, Tbl([tbl EXCEPT ![leaf] = sub.root]), sub.value)
             ELSE Found(FALSE, ptr, ptr)

\* find_key(root, path, create), path already split on "."; .ok is whether
\* it returned Ok, .root is root as the call leaves it, .value is the node
\* the returned reference points to
RECURSIVE find_key(_, _, _)
find_key(ptr, path, create) ==
    IF path = <<>> THEN Found(TRUE, ptr, ptr)
    ELSE LET leaf == Head(path)
         IN  IF ptr.tag = "Table"
             THEN LET tbl == IF create /\ leaf \notin DOMAIN ptr.val
                             THEN MapInsert(ptr.val, leaf, Tbl(Table_new))
                             ELSE ptr.val
                  IN  IF leaf \notin DOMAIN tbl THEN Found(FALSE, Tbl(tbl), ptr)
                      ELSE LET sub == find_key(tbl[leaf], Tail(path), create)
                           IN  Found(sub.ok, Tbl([tbl EXCEPT ![leaf] = sub.root]),
                                     sub.value)
             ELSE IF ptr.tag = "Array"
             THEN LET idx == usize_parse(leaf)
                  IN  IF ~idx.ok \/ idx.n >= Len(ptr.val) THEN Found(FALSE, ptr, ptr)
                      ELSE LET sub == find_key(ptr.val[idx.n + 1], Tail(path), create)
                           IN  Found(sub.ok,
                                     Arr([ptr.val EXCEPT ![idx.n + 1] = sub.root]),
                                     sub.value)
             ELSE Found(FALSE, ptr, ptr)

\* `*key = value` through the reference find_key returned for path
RECURSIVE Assign(_, _, _)
Assign(ptr, path, value) ==
    IF path = <<>> THEN value
    ELSE IF ptr.tag = "Table"
    THEN Tbl([ptr.val EXCEPT ![Head(path)] = Assign(@, Tail(path), value)])
    ELSE Arr([ptr.val EXCEPT ![usize_parse(Head(path)).n + 1] =
                                 Assign(@, Tail(path), value)])

\* the texts that parse as a TOML value after "x=", with the value
TomlValues == ("42" :> Int(42)) @@ ("true" :> Bool(TRUE))

\* set that stores every literal as a string
set_value_untyped(raw_value) == Str(raw_value)

\* set: the value a literal stands for; what does not parse is a string
set_value(raw_value) ==
    IF raw_value \in DOMAIN TomlValues THEN TomlValues[raw_value]
    ELSE Str(raw_value)

Front(path) == SubSeq(path, 1, Len(path) - 1)

Last(path) == path[Len(path)]

CfgCall(cmd, key, value) == [cmd |-> cmd, key |-> key, value |-> value]

\* a config command ends: it printed `out`, returned `res`, left `f` on disk
CfgReturns(o, res, out, f) ==
    /\ op' = o
    /\ result' = res
    /\ listed' = out
    /\ prev_file' = file
    /\ file' = f
    /\ UNCHANGED <<repos, default_repos, prev_repos, prev_default, start_consistent, procs>>

\* the line get prints: strings and integers bare, anything else as TOML
println(v) ==
    IF v.tag = "String" THEN [text |-> v.val]
    ELSE IF v.tag = "Integer" THEN [text |-> ToString(v.val)]
    ELSE IF v.tag = "Boolean" THEN [text |-> IF v.val THEN "true" ELSE "false"]
    ELSE [toml |-> v]

\* a config command ends with Config::save_raw(.., &v)
Saves(o, v) ==
    \E ser \in to_string_pretty(v) : CfgReturns(o, ser, <<>>, save_raw(v, ser))

\* fn get on the file f: how it returns, the node find_key gave it and what
\* it printed
get_key(f, key) ==
    LET raw == load_raw(f)
    IN  IF raw.result # "Ok"
        THEN [result |-> raw.result, value |-> Absent, out |-> <<>>]
        ELSE LET found == find_key(raw.value, key, FALSE)
             IN  IF found.ok
                 THEN [result |-> "Ok", value |-> found.value,
                       out |-> <<println(found.value)>>]
                 ELSE [result |-> "NoSuchKey", value |-> Absent, out |-> <<>>]

\* fn get: `config get <key>`
get(key) ==
    LET got == get_key(file, key)
    IN  /\ CfgReturns(CfgCall("get", key, ""), got.result, got.out, file)

\* fn set: `config set <key> <value>`
set(key, raw_value) ==
    LET raw == load_raw(file)
        o == CfgCall("set", key, raw_value)
    IN  IF raw.result # "Ok" THEN CfgReturns(o, raw.result, <<>>, file)
        ELSE LET value == set_value(raw_value)
                 found == find_key(raw.value, key, TRUE)
             IN  IF found.ok
                 THEN Saves(o, Assign(found.root, key, value))
                 ELSE CfgReturns(o, "NoSuchKey", <<>>, file)

\* unset that removes the key and forgets the rest of its parent table
unset_drops_siblings(key) ==
    LET raw == load_raw(file)
        o == CfgCall("unset", key, "")
    IN  IF raw.result # "Ok" THEN CfgReturns(o, raw.result, <<>>, file)
        ELSE LET parent == find_key(raw.value, Front(key), FALSE)
             IN  IF parent.ok /\ parent.value.tag = "Table"
                              /\ Last(key) \in DOMAIN parent.value.val
                 THEN Saves(o, Assign(parent.root, Front(key), Tbl(Table_new)))
                 ELSE CfgReturns(o, "NoSuchKey", <<>>, file)

\* unset that resolves the parent with create set and saves what it walked
unset_creates_parent(key) ==
    LET raw == load_raw(file)
        o == CfgCall("unset", key, "")
    IN  IF raw.result # "Ok" THEN CfgReturns(o, raw.result, <<>>, file)
        ELSE LET parent == find_key(raw.value, Front(key), TRUE)
             IN  IF parent.ok /\ parent.value.tag = "Table"
                              /\ Last(key) \in DOMAIN parent.value.val
                 THEN Saves(o, Assign(parent.root, Front(key),
                                      Tbl(MapRemove(parent.value.val, Last(key)))))
                 ELSE CfgReturns(o, "NoSuchKey", <<>>, save_raw(parent.root, "Ok"))

\* fn unset: `config unset <key>`
unset(key) ==
    LET raw == load_raw(file)
        o == CfgCall("unset", key, "")
    IN  IF raw.result # "Ok" THEN CfgReturns(o, raw.result, <<>>, file)
        ELSE LET parent == find_key(raw.value, Front(key), FALSE)
             IN  IF parent.ok /\ parent.value.tag = "Table"
                              /\ Last(key) \in DOMAIN parent.value.val
                 THEN Saves(o, Assign(parent.root, Front(key),
                                      Tbl(MapRemove(parent.value.val, Last(key)))))
                 ELSE CfgReturns(o, "NoSuchKey", <<>>, file)

\* reset that keeps the sections the schema does not have
reset_keeps_unknown ==
    LET o == CfgCall("reset", <<>>, "")
    IN  IF file = Unreadable THEN CfgReturns(o, "IoError", <<>>, file)
        ELSE CfgReturns(o, "Ok", <<>>,
                        Tbl(Config_save(Config_default).val @@ load_raw(file).value.val))

\* fn reset: `config reset` saves Config::default() without loading; a file
\* that cannot be read may or may not be one that can be opened for writing
reset ==
    LET o == CfgCall("reset", <<>>, "")
    IN  \E opened \in (IF file = Unreadable THEN BOOLEAN ELSE {TRUE}) :
           IF opened THEN CfgReturns(o, "Ok", <<>>, Config_save(Config_default))
           ELSE CfgReturns(o, "IoError", <<>>, file)

---------------------------------------------------------------------------
(* SpecCfg: the `storm config` get, set and unset commands *)

\* the keys given on the command line, split on "."
Keys ==
    { <<"a", "b", "c">>, <<"a", "b">>, <<"arr", "0", "k">>, <<"arr", "2">>,
      <<"arr", "x">>, <<"cli", "prompt", "x">>, <<"cli", "prompt">>, <<"extra">> }

\* a key that names an element of an array, for get and unset
ReadKeys == Keys \cup { <<"arr", "0">> }

\* the values given on the command line
Literals == {"42", "hello"}

\* the configuration file a run starts from: a scalar, an array of tables
\* and a section storm does not know
CfgInitFiles ==
    { Tbl([cli   |-> Tbl([prompt |-> Bool(TRUE)]),
           arr   |-> Arr(<<Tbl([k |-> Int(1)]), Tbl([k |-> Int(2)])>>),
           extra |-> Tbl([k |-> Str("kept")])]) }

InitCfg ==
    /\ procs = NoProcs
    /\ file \in CfgInitFiles
    /\ prev_file = file
    /\ repos = EmptyMap
    /\ default_repos = <<>>
    /\ prev_repos = EmptyMap
    /\ prev_default = <<>>
    /\ result = "Ok"
    /\ op = CfgCall("init", <<>>, "")
    /\ listed = <<>>
    /\ start_consistent = TRUE

NextCfg ==
    \/ \E key \in ReadKeys : get(key)
    \/ \E key \in Keys, raw_value \in Literals : set(key, raw_value)
    \/ \E key \in ReadKeys : unset(key)

SpecCfg == InitCfg /\ [][NextCfg]_vars

---------------------------------------------------------------------------
(* SpecSave: config set and get on keys that put a value into an array *)

SaveKeys == { <<"arr", "0">>, <<"arr", "0", "k">>, <<"extra">> }

NextSave ==
    \/ \E key \in SaveKeys : get(key)
    \/ \E key \in SaveKeys, raw_value \in Literals : set(key, raw_value)

SpecSave == InitCfg /\ [][NextSave]_vars

---------------------------------------------------------------------------
(* SpecCmd: the `storm repo` commands, one process each *)

\* the names the commands are given
CmdNames == {"a", "dummy"}

\* `--precedence`: possible_values, default_value("last")
Precedence == {"first", "last"}

\* configuration files a run starts from: none, one written by storm, three
\* written by hand (a single-string default and an unknown section; a repo
\* table without "default"; a default list naming a repository that is not
\* there), and one that cannot be read
InitFiles ==
    { Absent,
      Config_to_Value([cli |-> [prompt |-> TRUE], sandbox |-> "firecracker",
                       repo |-> [default_repos |-> <<"a">>,
                                 repos |-> [k \in {"a"} |-> GentooRepo]]]),
      Tbl([repo  |-> Tbl([default |-> Str("dummy"), dummy |-> Tbl([type |-> Str("dummy")])]),
           extra |-> Tbl([key |-> Str("kept")])]),
      Tbl([repo  |-> Tbl([a |-> Tbl([type |-> Str("dummy")])])]),
      Tbl([repo  |-> Tbl([default |-> Arr(<<Str("a"), Str("dummy")>>),
                          dummy |-> Tbl([type |-> Str("dummy")])])]),
      Unreadable }

InitCmd ==
    /\ procs = NoProcs
    /\ file \in InitFiles
    /\ prev_file = file
    /\ repos = EmptyMap
    /\ default_repos = <<>>
    /\ prev_repos = EmptyMap
    /\ prev_default = <<>>
    /\ result = "Ok"
    /\ op = NoCall
    /\ listed = <<>>
    /\ start_consistent = TRUE

\* a command whose Config::load()? failed: nothing is in memory, nothing is saved
LoadFails(o, loaded) ==
    /\ result' = loaded.result
    /\ op' = o
    /\ prev_file' = file
    /\ listed' = <<>>
    /\ UNCHANGED <<repos, default_repos, prev_repos, prev_default, start_consistent, file, procs>>

\* a command that saves the sections it does not know along with its own
Command_keeps_unknown(o, loaded, out) ==
    /\ result' = out.result
    /\ op' = o
    /\ prev_file' = file
    /\ prev_repos' = loaded.config.repo.repos
    /\ prev_default' = loaded.config.repo.default_repos
    /\ repos' = out.repos
    /\ default_repos' = out.default_repos
    /\ listed' = <<>>
    /\ file' = IF out.result = "Ok"
               THEN Tbl(Config_save([loaded.config EXCEPT
                                        !.repo = [default_repos |-> out.default_repos,
                                                  repos |-> out.repos]]).val
                        @@ load_raw(file).value.val)
               ELSE file
    /\ UNCHANGED <<start_consistent, procs>>

\* a command that loaded `loaded`, got `out` from its RepoConfig method and
\* ends with config.save() unless the method's error was returned by `?`
\* (or the method panicked)
Command(o, loaded, out) ==
    /\ result' = out.result
    /\ op' = o
    /\ prev_file' = file
    /\ prev_repos' = loaded.config.repo.repos
    /\ prev_default' = loaded.config.repo.default_repos
    /\ repos' = out.repos
    /\ default_repos' = out.default_repos
    /\ listed' = <<>>
    /\ file' = IF out.result = "Ok"
               THEN Config_save([loaded.config EXCEPT
                                    !.repo = [default_repos |-> out.default_repos,
                                              repos |-> out.repos]])
               ELSE file
    /\ UNCHANGED <<start_consistent, procs>>

\* fn list: `repo list [--default]`
list(default_only) ==
    LET loaded == Config_load(file)
        o == Call("list", "", "", FALSE, FALSE, ~default_only, default_only)
    IN  IF loaded.result # "Ok" THEN LoadFails(o, loaded)
        ELSE /\ \E keys \in (IF default_only THEN {<<>>}
                             ELSE KeyOrders(DOMAIN loaded.config.repo.repos)) :
                  listed' = RepoConfig_list(loaded.config.repo.default_repos, keys,
                                            ~default_only, default_only)
             /\ result' = "Ok"
             /\ op' = o
             /\ prev_file' = file
             /\ prev_repos' = loaded.config.repo.repos
             /\ prev_default' = loaded.config.repo.default_repos
             /\ repos' = loaded.config.repo.repos
             /\ default_repos' = loaded.config.repo.default_repos
             /\ UNCHANGED <<start_consistent, file, procs>>

\* fn add: `repo add <name> [--default] [--precedence first|last] dummy`
add(name, default, precedence) ==
    LET loaded == Config_load(file)
        o == Call("add", name, "", default, precedence = "first", FALSE, FALSE)
    IN  IF loaded.result # "Ok" THEN LoadFails(o, loaded)
        ELSE Command(o, loaded,
                     RepoConfig_add(loaded.config.repo.repos,
                                    loaded.config.repo.default_repos,
                                    name, "dummy", default, precedence = "first"))

\* fn remove: `repo remove <repo>`
remove(name) ==
    LET loaded == Config_load(file)
        o == Call("remove", name, "", FALSE, FALSE, FALSE, FALSE)
    IN  IF loaded.result # "Ok" THEN LoadFails(o, loaded)
        ELSE Command(o, loaded,
                     RepoConfig_remove(loaded.config.repo.repos,
                                       loaded.config.repo.default_repos, name))

\* fn rename: `repo rename <old> <new>`
rename(old_name, new_name) ==
    LET loaded == Config_load(file)
        o == Call("rename", old_name, new_name, FALSE, FALSE, FALSE, FALSE)
    IN  IF loaded.result # "Ok" THEN LoadFails(o, loaded)
        ELSE Command(o, loaded,
                     RepoConfig_rename(loaded.config.repo.repos,
                                       loaded.config.repo.default_repos,
                                       old_name, new_name))

\* fn set_default: `repo set-default <repo> <true|false> [--precedence first|last]`
set_default(name, default, precedence) ==
    LET loaded == Config_load(file)
        first == precedence = "first"
        o == Call("set_default", name, "", default, first, FALSE, FALSE)
    IN  IF loaded.result # "Ok" THEN LoadFails(o, loaded)
        ELSE Command(o, loaded,
                     RepoConfig_set_default(loaded.config.repo.repos,
                                            loaded.config.repo.default_repos,
                                            name, default, first))

\* the repo commands, given names from N
RepoCommands(N) ==
    \/ \E default_only \in BOOLEAN : list(default_only)
    \/ \E name \in N, default \in BOOLEAN, precedence \in Precedence :
          add(name, default, precedence)
    \/ \E name \in N : remove(name)
    \/ \E old_name, new_name \in N : rename(old_name, new_name)
    \/ \E name \in N, default \in BOOLEAN, precedence \in Precedence :
          set_default(name, default, precedence)

NextCmd == RepoCommands(CmdNames)

SpecCmd == InitCmd /\ [][NextCmd]_vars

---------------------------------------------------------------------------
(* SpecNames: the repo commands from no configuration file, with a         *)
(* repository that may be called "default"                                 *)

AllNames == CmdNames \cup {"default"}

InitNames == InitCmd /\ file = Absent

NextNames == RepoCommands(AllNames)

SpecNames == InitNames /\ [][NextNames]_vars

---------------------------------------------------------------------------
(* SpecRace: two repo commands run at the same time on one file; each is   *)
(* three steps, Config::load with the method call, the open that truncates *)
(* and the write                                                           *)

RaceCmds == {"add", "remove"}

\* fn add / fn remove up to config.save(): how the command returns when it
\* does not get to save, and the text it saves otherwise
RunCommand(f, cmd, name) ==
    LET loaded == Config_load(f)
        rc == loaded.config.repo
        out == IF cmd = "add"
               THEN RepoConfig_add(rc.repos, rc.default_repos, name, "dummy", FALSE, FALSE)
               ELSE RepoConfig_remove(rc.repos, rc.default_repos, name)
    IN  IF loaded.result # "Ok" THEN [result |-> loaded.result, doc |-> Absent]
        ELSE [result |-> out.result,
              doc |-> Config_to_string([loaded.config EXCEPT
                                           !.repo = [default_repos |-> out.default_repos,
                                                     repos |-> out.repos]])]

\* process p is now in state st after its step ev
Step(p, st, ev) ==
    /\ procs' = [of |-> [procs.of EXCEPT ![p] = st],
                 events |-> Append(procs.events, <<p, ev>>)]
    /\ UNCHANGED <<repos, default_repos, result, op, prev_repos, prev_default,
                   listed, start_consistent, prev_file>>

\* Config::load()? and the RepoConfig method with its `?`
Load(p, cmd, name) ==
    /\ procs.of[p].pc = "start"
    /\ LET run == RunCommand(file, cmd, name)
       IN  Step(p, [pc |-> IF run.result = "Ok" THEN "loaded" ELSE "done",
                    cmd |-> cmd, name |-> name, read |-> file, doc |-> run.doc,
                    result |-> run.result], "load")
    /\ UNCHANGED file

\* an open that loads the file again and redoes the command on it
Open_reloads(p) ==
    /\ procs.of[p].pc = "loaded"
    /\ file' = EmptyFile
    /\ LET run == RunCommand(file, procs.of[p].cmd, procs.of[p].name)
       IN  Step(p, [procs.of[p] EXCEPT !.pc = "opened",
                                       !.doc = IF run.result = "Ok" THEN run.doc ELSE @],
                "open")

\* save_raw: OpenOptions .. truncate(true) .. open
Open(p) ==
    /\ procs.of[p].pc = "loaded"
    /\ file' = EmptyFile
    /\ Step(p, [procs.of[p] EXCEPT !.pc = "opened"], "open")

\* save_raw: config_file.write at the start of the file p opened; over a
\* text the other process wrote meanwhile it leaves p's text, followed by
\* the end of the other text when that one is longer
Write(p) ==
    /\ procs.of[p].pc = "opened"
    /\ file' \in (IF file = EmptyFile THEN {procs.of[p].doc}
                  ELSE {procs.of[p].doc, Garbled})
    /\ Step(p, [procs.of[p] EXCEPT !.pc = "done"], "write")

NextRace ==
    \/ \E p \in Procs, cmd \in RaceCmds, name \in CmdNames : Load(p, cmd, name)
    \/ \E p \in Procs : Open(p)
    \/ \E p \in Procs : Write(p)

SpecRace == InitCmd /\ [][NextRace]_vars

---------------------------------------------------------------------------
(* SpecMixed: `storm repo` and `storm config` commands on one file *)

\* the keys `config get` is given; `config set` and `config unset` are given
\* the first, a name the schema does not have
CmdKeys == << <<"extra">>, <<"cli", "prompt">> >>

NextMixed ==
    \/ NextCmd
    \/ \E i \in DOMAIN CmdKeys : get(CmdKeys[i])
    \/ \E raw_value \in Literals : set(CmdKeys[1], raw_value)
    \/ unset(CmdKeys[1])
    \/ reset

SpecMixed == InitCmd /\ [][NextMixed]_vars

---------------------------------------------------------------------------
(* Vocabulary of the properties *)

\* s with every occurrence of x taken out, the other elements in order
RECURSIVE Without(_, _)
Without(s, x) ==
    IF s = <<>> THEN <<>>
    ELSE IF Head(s) = x THEN Without(Tail(s), x)
    ELSE <<Head(s)>> \o Without(Tail(s), x)

Count(s, x) == Cardinality({i \in DOMAIN s : s[i] = x})

Occurs(s, x) == \E i \in DOMAIN s : s[i] = x

IsSorted(s) == \A i, j \in DOMAIN s : i < j => Rank(s[i]) <= Rank(s[j])

SameNames(s, t) == Len(s) = Len(t) /\ \A n \in Names : Count(s, n) = Count(t, n)

---------------------------------------------------------------------------
(* Properties of the registry, checked under Spec *)

\* C1: a run that starts from a registry without dangling defaults never
\* shows one: after every call that returned, successfully or with an error,
\* every name in default_repos is a key of repos.
C1_RegistryConsistent ==
    (start_consistent /\ Running) => Consistent(repos, default_repos)

C1_Witness ==
    /\ start_consistent
    /\ op.cmd = "remove"
    /\ result = "Ok"
    /\ Occurs(prev_default, op.name)
    /\ default_repos # <<>>

\* C2: remove(name) of a key succeeds, deletes exactly that key, takes every
\* occurrence of name out of default_repos keeping the other names in order,
\* and a second remove(name) right after it fails with NoSuchRepo.
C2_RemoveDeletesAndPrunes ==
    (op.cmd = "remove" /\ op.name \in DOMAIN prev_repos) =>
        /\ result = "Ok"
        /\ DOMAIN repos = (DOMAIN prev_repos) \ {op.name}
        /\ \A k \in DOMAIN repos : repos[k] = prev_repos[k]
        /\ default_repos = Without(prev_default, op.name)
        /\ ~Occurs(default_repos, op.name)
        /\ RepoConfig_remove(repos, default_repos, op.name).result = "NoSuchRepo"
        /\ RepoConfig_remove(repos, default_repos, op.name).repos = repos
        /\ RepoConfig_remove(repos, default_repos, op.name).default_repos = default_repos

C2_Witness ==
    /\ op.cmd = "remove"
    /\ result = "Ok"
    /\ Count(prev_default, op.name) >= 2
    /\ Len(default_repos) >= 1

\* C3: rename(old, new) with old a key and new not a key succeeds, moves the
\* record unchanged from old to new, and rewrites every occurrence of old in
\* default_repos to new at the same index, nothing else in the list changing.
C3_RenameMovesRecord ==
    (op.cmd = "rename" /\ op.name \in DOMAIN prev_repos
                       /\ op.new_name \notin DOMAIN prev_repos) =>
        /\ result = "Ok"
        /\ DOMAIN repos = ((DOMAIN prev_repos) \ {op.name}) \cup {op.new_name}
        /\ op.name \notin DOMAIN repos
        /\ repos[op.new_name] = prev_repos[op.name]
        /\ Len(default_repos) = Len(prev_default)
        /\ \A i \in DOMAIN prev_default :
              default_repos[i] =
                  IF prev_default[i] = op.name THEN op.new_name ELSE prev_default[i]

C3_Witness ==
    /\ op.cmd = "rename"
    /\ result = "Ok"
    /\ op.name # op.new_name
    /\ prev_repos[op.name] = GentooRepo
    /\ Len(prev_default) >= 2
    /\ prev_default[1] = op.name
    /\ prev_default[2] # op.name

\* C4, as claimed: rename(old, new) with old and new both keys of repos
\* panics, whatever the two names are.
C4_RenameOntoKeyPanics ==
    (op.cmd = "rename" /\ op.name \in DOMAIN prev_repos
                       /\ op.new_name \in DOMAIN prev_repos) =>
        result = "Panic"

\* C4, amended: rename(old, new) with old and new two different keys of
\* repos panics; it returns neither success nor an error.
C4_RenameOntoOtherKeyPanics ==
    (op.cmd = "rename" /\ op.name \in DOMAIN prev_repos
                       /\ op.new_name \in DOMAIN prev_repos
                       /\ op.new_name # op.name) =>
        result = "Panic"

C4_Witness ==
    /\ op.cmd = "rename"
    /\ op.name # op.new_name
    /\ op.name \in DOMAIN prev_repos
    /\ op.new_name \in DOMAIN prev_repos
    /\ result = "Panic"

\* C5: set_default(name, enabled, prepend) on a key leaves repos alone and
\* the other names in their order; enabled puts name exactly once in
\* default_repos, first when prepend and last otherwise; disabled leaves no
\* occurrence of name.
C5_SetDefaultPlaces ==
    (op.cmd = "set_default" /\ op.name \in DOMAIN prev_repos) =>
        /\ result = "Ok"
        /\ repos = prev_repos
        /\ Without(default_repos, op.name) = Without(prev_default, op.name)
        /\ op.default =>
              /\ Count(default_repos, op.name) = 1
              /\ op.first => default_repos[1] = op.name
              /\ ~op.first => default_repos[Len(default_repos)] = op.name
        /\ ~op.default => ~Occurs(default_repos, op.name)

C5_Witness ==
    /\ op.cmd = "set_default"
    /\ result = "Ok"
    /\ op.default
    /\ ~op.first
    /\ Len(prev_default) >= 3
    /\ Count(prev_default, op.name) = 2
    /\ prev_default[Len(prev_default)] # op.name

\* C6: set_default is idempotent: the same call made again right after a
\* successful one succeeds and changes neither repos nor default_repos; with
\* enabled and prepend, name is then exactly once in the list, at the front.
C6_SetDefaultIdempotent ==
    (op.cmd = "set_default" /\ result = "Ok") =>
        LET again == RepoConfig_set_default(repos, default_repos,
                                            op.name, op.default, op.first)
        IN  /\ again.result = "Ok"
            /\ again.repos = repos
            /\ again.default_repos = default_repos
            /\ (op.default /\ op.first) =>
                  /\ Count(again.default_repos, op.name) = 1
                  /\ again.default_repos[1] = op.name

C6_Witness ==
    /\ op.cmd = "set_default"
    /\ result = "Ok"
    /\ op.default
    /\ op.first
    /\ Occurs(prev_default, op.name)
    /\ prev_default[1] # op.name

\* C7, as claimed: list with only_default returns default_repos in its
\* stored order whatever sort is.
C7_ListDefaultNeverSorted ==
    (op.cmd = "list" /\ op.only_default) => listed = default_repos

\* C7, amended: list with only_default returns default_repos in its stored
\* order when sort is false, and the same names sorted when sort is true.
C7_ListDefaultOrder ==
    (op.cmd = "list" /\ op.only_default) =>
        /\ ~op.sort => listed = default_repos
        /\ op.sort => IsSorted(listed) /\ SameNames(listed, default_repos)

C7_Witness ==
    /\ op.cmd = "list"
    /\ op.only_default
    /\ op.sort
    /\ listed # default_repos

\* C8: add(name, backend) of a known kind always succeeds: repos then maps
\* name to the new backend, also when name was a key before, and every other
\* key keeps its record.
C8_AddUpserts ==
    (op.cmd = "add") =>
        /\ result = "Ok"
        /\ DOMAIN repos = (DOMAIN prev_repos) \cup {op.name}
        /\ repos[op.name] = dummy_run
        /\ \A k \in (DOMAIN repos) \ {op.name} : repos[k] = prev_repos[k]

C8_Witness ==
    /\ op.cmd = "add"
    /\ result = "Ok"
    /\ op.name \in DOMAIN prev_repos
    /\ prev_repos[op.name] = GentooRepo
    /\ repos[op.name] = DummyRepo
    /\ \E k \in DOMAIN repos : k # op.name /\ repos[k] = GentooRepo

---------------------------------------------------------------------------
(* Properties of the commands, checked under SpecCmd *)

\* the default list a typed load reads back from the configuration file
SavedDefaults == Config_load(file).config.repo.default_repos

\* C9: after a successful `repo add <name> --default [--precedence p] <kind>`
\* name is in the saved default_repos, at the front when p is first and at
\* the back when p is last; without --default the saved list is the one the
\* command loaded.
C9_AddDefaultFlagSetsDefault ==
    (op.cmd = "add" /\ result = "Ok") =>
        /\ op.default =>
              /\ Occurs(SavedDefaults, op.name)
              /\ op.first => SavedDefaults[1] = op.name
              /\ ~op.first => SavedDefaults[Len(SavedDefaults)] = op.name
        /\ ~op.default => SavedDefaults = prev_default

\* C10, as claimed: the registry a command gets when no configuration file
\* exists holds exactly one repository, "dummy" of the Dummy kind, and
\* "dummy" is in its default_repos.
C10_DefaultRegistryHasDummy ==
    (op.cmd # "init" /\ prev_file = Absent) =>
        /\ DOMAIN prev_repos = {"dummy"}
        /\ prev_repos["dummy"] = DummyRepo
        /\ Occurs(prev_default, "dummy")

\* C10, amended: the registry a command gets when no configuration file
\* exists holds no repository, and its default_repos is empty.
C10_DefaultRegistryEmpty ==
    (op.cmd # "init" /\ prev_file = Absent) =>
        /\ result # "SchemaMismatch"
        /\ DOMAIN prev_repos = {}
        /\ prev_default = <<>>

C10_Witness ==
    /\ op.cmd = "add"
    /\ prev_file = Absent
    /\ result = "Ok"
    /\ file # Absent
    /\ DOMAIN repos = {op.name}
    /\ SavedDefaults = <<>>

---------------------------------------------------------------------------
(* Properties of loading, checked under SpecMixed *)

RepoCmds == {"list", "add", "remove", "rename", "set_default"}

SavingCmds == RepoCmds \ {"list"}

DefaultDocument == Config_to_Value(Config_default)

\* C11: a command that finds no configuration file does not fail for it and
\* works on the schema-default document: a typed command has the default
\* registry in memory and saves the default cli and sandbox sections, a raw
\* get answers what it answers on a file holding the default document, a raw
\* set keeps the default sections; a file that is there and cannot be read
\* makes every command that loads fail with the read error and leaves the
\* file alone.
C11_MissingFileLoadsDefault ==
    /\ (op.cmd \in RepoCmds /\ prev_file = Absent) =>
          /\ result \notin {"NotFound", "IoError", "SchemaMismatch"}
          /\ prev_repos = Config_default.repo.repos
          /\ prev_default = Config_default.repo.default_repos
          /\ (op.cmd \in SavingCmds /\ result = "Ok") =>
                /\ file.val["cli"] = DefaultDocument.val["cli"]
                /\ file.val["sandbox"] = DefaultDocument.val["sandbox"]
    /\ (op.cmd = "get" /\ prev_file = Absent) =>
          /\ result = get_key(DefaultDocument, op.key).result
          /\ listed = get_key(DefaultDocument, op.key).out
          /\ file = Absent
    /\ (op.cmd = "set" /\ prev_file = Absent) =>
          /\ result = "Ok"
          /\ \A k \in DOMAIN DefaultDocument.val :
                k \in DOMAIN file.val /\ file.val[k] = DefaultDocument.val[k]
    /\ (op.cmd \notin {"init", "reset"} /\ prev_file = Unreadable) =>
          result = "IoError" /\ file = Unreadable

\* get cli.prompt with no configuration file printed the default, false
C11_Witness ==
    /\ op.cmd = "get"
    /\ op.key = <<"cli", "prompt">>
    /\ prev_file = Absent
    /\ result = "Ok"
    /\ listed = <<[text |-> "false"]>>

---------------------------------------------------------------------------
(* Properties of the path commands, checked under SpecCfg *)

\* the document the last command loaded, and the one now on disk
PrevDoc == load_raw(prev_file).value

Doc == load_raw(file).value

\* what each literal of the model stands for, and the line get prints for it
ExpectedValue == ("42" :> Int(42)) @@ ("hello" :> Str("hello"))

ExpectedLine == ("42" :> [text |-> "42"]) @@ ("hello" :> [text |-> "hello"])

\* segment seg names the i-th element of an array
IsIndex(seg, i) == usize_parse(seg).ok /\ usize_parse(seg).n + 1 = i

\* new is old except at path: every key and element beside the path is there
\* with its old value, and nothing beside the path was added
RECURSIVE OffPathSame(_, _, _)
OffPathSame(old, new, path) ==
    IF path = <<>> THEN TRUE
    ELSE IF old.tag = "Table"
    THEN /\ new.tag = "Table"
         /\ DOMAIN new.val \ {Head(path)} = DOMAIN old.val \ {Head(path)}
         /\ \A k \in DOMAIN old.val \ {Head(path)} : new.val[k] = old.val[k]
         /\ (Head(path) \in DOMAIN old.val /\ Head(path) \in DOMAIN new.val) =>
               OffPathSame(old.val[Head(path)], new.val[Head(path)], Tail(path))
    ELSE IF old.tag = "Array"
    THEN /\ new.tag = "Array"
         /\ Len(new.val) = Len(old.val)
         /\ \A i \in DOMAIN old.val :
               IF IsIndex(Head(path), i)
               THEN OffPathSame(old.val[i], new.val[i], Tail(path))
               ELSE new.val[i] = old.val[i]
    ELSE new = old

\* the walk along path goes through tables only and meets a missing key
RECURSIVE TablesToMissing(_, _)
TablesToMissing(ptr, path) ==
    /\ path # <<>>
    /\ ptr.tag = "Table"
    /\ \/ Head(path) \notin DOMAIN ptr.val
       \/ /\ Head(path) \in DOMAIN ptr.val
          /\ TablesToMissing(ptr.val[Head(path)], Tail(path))

\* the walk along path is stopped by an array (segment not an index of it)
\* or by a scalar, at a node that was there before the call
RECURSIVE Stuck(_, _)
Stuck(ptr, path) ==
    /\ path # <<>>
    /\ IF ptr.tag = "Table"
       THEN /\ Head(path) \in DOMAIN ptr.val
            /\ Stuck(ptr.val[Head(path)], Tail(path))
       ELSE IF ptr.tag = "Array"
       THEN \/ \A i \in DOMAIN ptr.val : ~IsIndex(Head(path), i)
            \/ \E i \in DOMAIN ptr.val :
                  IsIndex(Head(path), i) /\ Stuck(ptr.val[i], Tail(path))
       ELSE TRUE

\* C12: after a set that succeeded, get of the same key on the saved file
\* succeeds and finds the typed value of the literal (42 as an integer, a
\* text that is no TOML literal as a string) and prints it.
C12_SetThenGet ==
    (op.cmd = "set" /\ result = "Ok") =>
        LET got == get_key(file, op.key)
        IN  /\ got.result = "Ok"
            /\ got.value = ExpectedValue[op.value]
            /\ got.out = <<ExpectedLine[op.value]>>

\* set arr.0.k 42 wrote the integer over the 1 that was there
C12_Witness ==
    /\ op.cmd = "set"
    /\ op.key = <<"arr", "0", "k">>
    /\ op.value = "42"
    /\ result = "Ok"
    /\ get_key(prev_file, op.key).value = Int(1)
    /\ get_key(file, op.key).value = Int(42)

\* C13: a set whose path walks tables and meets a missing key succeeds; each
\* prefix of the path that was missing is afterwards a table holding only
\* the next segment, the value is at the end of the path, and everything
\* beside the path is as before. Resolution without create changes nothing:
\* find_key(.., false) leaves every document as it is and get writes no file.
C13_CreateOnWrite ==
    /\ (op.cmd = "set" /\ TablesToMissing(PrevDoc, op.key)) =>
          /\ result = "Ok"
          /\ \A i \in 1..(Len(op.key) - 1) :
                get_key(prev_file, SubSeq(op.key, 1, i)).result = "NoSuchKey" =>
                   LET now == get_key(file, SubSeq(op.key, 1, i)).value
                   IN  now.tag = "Table" /\ DOMAIN now.val = {op.key[i + 1]}
          /\ get_key(file, op.key).value = ExpectedValue[op.value]
          /\ OffPathSame(PrevDoc, Doc, op.key)
    /\ \A key \in Keys : find_key(Doc, key, FALSE).root = Doc
    /\ op.cmd = "get" => file = prev_file

\* set a.b.c on a document without a created a and a.b
C13_Witness ==
    /\ op.cmd = "set"
    /\ op.key = <<"a", "b", "c">>
    /\ result = "Ok"
    /\ "a" \notin DOMAIN PrevDoc.val
    /\ Doc.val["a"] = Tbl([b |-> Tbl([c |-> ExpectedValue[op.value]])])
    /\ "extra" \in DOMAIN Doc.val

\* C14: after an unset that succeeded, get of the same key on the saved file
\* fails with NoSuchKey, and every other key of the document (siblings of the
\* removed key and all other subtrees) is there with its old value.
C14_UnsetThenGet ==
    (op.cmd = "unset" /\ result = "Ok") =>
        /\ get_key(prev_file, op.key).result = "Ok"
        /\ get_key(file, op.key).result = "NoSuchKey"
        /\ OffPathSame(PrevDoc, Doc, op.key)

\* unset arr.0.k removed k from the first element and kept the second
C14_Witness ==
    /\ op.cmd = "unset"
    /\ op.key = <<"arr", "0", "k">>
    /\ result = "Ok"
    /\ Doc.val["arr"].val[1] = Tbl(Table_new)
    /\ Doc.val["arr"].val[2] = Tbl([k |-> Int(2)])
    /\ "extra" \in DOMAIN Doc.val

\* C15: a set or unset that succeeded saved every top-level key other than
\* the first segment of its path with the value the key had, the keys the
\* schema does not know included.
C15_EditsKeepOtherSections ==
    (op.cmd \in {"set", "unset"} /\ result = "Ok") =>
        \A k \in DOMAIN PrevDoc.val \ {op.key[1]} :
            k \in DOMAIN Doc.val /\ Doc.val[k] = PrevDoc.val[k]

\* set under a kept the section extra, which the schema does not have
C15_Witness ==
    /\ op.cmd = "set"
    /\ op.key[1] = "a"
    /\ result = "Ok"
    /\ "extra" \in DOMAIN PrevDoc.val
    /\ "extra" \notin {"cli", "sandbox", "repo"}
    /\ Doc.val["extra"] = Tbl([k |-> Str("kept")])

\* C16: when the walk is stopped by an array (segment no index of it) or by
\* a scalar, find_key fails and leaves root as it was, with and without
\* create; a set stopped that way returns NoSuchKey and the file is unchanged.
C16_FailedResolveChangesNothing ==
    /\ \A key \in Keys, create \in BOOLEAN :
          Stuck(Doc, key) =>
             /\ ~find_key(Doc, key, create).ok
             /\ find_key(Doc, key, create).root = Doc
    /\ (op.cmd = "set" /\ Stuck(PrevDoc, op.key)) =>
          result = "NoSuchKey" /\ file = prev_file

\* set arr.2 on an array of two elements failed and extended nothing
C16_Witness ==
    /\ op.cmd = "set"
    /\ op.key = <<"arr", "2">>
    /\ Len(PrevDoc.val["arr"].val) = 2
    /\ result = "NoSuchKey"
    /\ file = prev_file

---------------------------------------------------------------------------
(* Further properties of the registry and of its commands *)

\* the names a call is about
Affected == IF op.cmd = "rename" THEN {op.name, op.new_name} ELSE {op.name}

\* s without the names the call is about
Others(s) == SelectSeq(s, LAMBDA x : x \notin Affected)

\* C17: a remove, rename or set-default command given a name that is no key
\* of the loaded repos returns NoSuchRepo, leaves repos and default_repos as
\* loaded (also when the name is in default_repos) and does not write the
\* configuration file. Checked under SpecCmd.
C17_MissingNameFailsCleanly ==
    (/\ op.cmd \in {"remove", "rename", "set_default"}
     /\ result \notin {"IoError", "SchemaMismatch"}
     /\ op.name \notin DOMAIN prev_repos) =>
        /\ result = "NoSuchRepo"
        /\ repos = prev_repos
        /\ default_repos = prev_default
        /\ file = prev_file

\* remove a, with a in the default list of the file and no repository a
C17_Witness ==
    /\ op.cmd = "remove"
    /\ op.name = "a"
    /\ "a" \notin DOMAIN prev_repos
    /\ Occurs(prev_default, "a")
    /\ result = "NoSuchRepo"
    /\ Occurs(default_repos, "a")
    /\ file = prev_file

\* C18: a call of add, remove, rename or set_default that returned Ok left
\* every name it is not about as it was: in repos or not, with the same
\* backend record, in default_repos or not, and the default list restricted
\* to those names is the same sequence. Checked under Spec.
C18_NoImplicitTransitions ==
    (op.cmd \in {"add", "remove", "rename", "set_default"} /\ result = "Ok") =>
        /\ \A m \in Names \ Affected :
              /\ m \in DOMAIN repos <=> m \in DOMAIN prev_repos
              /\ m \in DOMAIN repos => repos[m] = prev_repos[m]
              /\ Occurs(default_repos, m) <=> Occurs(prev_default, m)
        /\ Others(default_repos) = Others(prev_default)

\* set_default(dummy, true, first) went in front of b and a, which stayed
C18_Witness ==
    /\ op.cmd = "set_default"
    /\ op.name = "dummy"
    /\ result = "Ok"
    /\ prev_default = <<"b", "a">>
    /\ default_repos = <<"dummy", "b", "a">>
    /\ repos = prev_repos

\* C19: from a registry whose default list names keys of repos only and no
\* name twice, no sequence of calls puts a name into default_repos twice.
\* Checked under SpecClean.
C19_NoDuplicateDefaults == NoRepeat(default_repos)

\* set_default(n, true, ..) on a name that was a default already
C19_Witness ==
    /\ op.cmd = "set_default"
    /\ op.default
    /\ result = "Ok"
    /\ Occurs(prev_default, op.name)
    /\ Len(prev_default) = 2
    /\ Count(default_repos, op.name) = 1

\* C20: a repo add, remove, rename or set-default command that succeeded
\* saved a document whose top-level keys are among cli, sandbox and repo; a
\* key of another name is not found by get afterwards. Checked under
\* SpecMixed.
C20_TypedCommandsDropUnknown ==
    (op.cmd \in SavingCmds /\ result = "Ok") =>
        /\ DOMAIN Doc.val \subseteq {"cli", "sandbox", "repo"}
        /\ \A i \in DOMAIN CmdKeys :
              CmdKeys[i][1] \notin {"cli", "sandbox", "repo"} =>
                 get_key(file, CmdKeys[i]).result = "NoSuchKey"

\* extra = 42, stored by config set, is gone after a repo command
C20_Witness ==
    /\ op.cmd \in SavingCmds
    /\ result = "Ok"
    /\ get_key(prev_file, <<"extra">>).value = Int(42)
    /\ get_key(file, <<"extra">>).result = "NoSuchKey"

---------------------------------------------------------------------------
(* Failing unset, checked under SpecCfg *)

\* the three ways unset(p) has nothing to remove in the document of file f:
\* the parent path does not resolve, the parent is no table, the last
\* segment is no key of the parent table
ParentMissing(f, p) == get_key(f, Front(p)).result = "NoSuchKey"

ParentNoTable(f, p) ==
    /\ get_key(f, Front(p)).result = "Ok"
    /\ get_key(f, Front(p)).value.tag # "Table"

LastMissing(f, p) ==
    /\ get_key(f, Front(p)).result = "Ok"
    /\ get_key(f, Front(p)).value.tag = "Table"
    /\ Last(p) \notin DOMAIN get_key(f, Front(p)).value.val

\* C21: unset fails with NoSuchKey exactly when the parent path does not
\* resolve, the parent is not a table or the last segment is not a key of
\* the parent; the file is then what it was, no table was created in it.
C21_FailedUnsetChangesNothing ==
    op.cmd = "unset" =>
        /\ result = "NoSuchKey" <=>
              \/ ParentMissing(prev_file, op.key)
              \/ ParentNoTable(prev_file, op.key)
              \/ LastMissing(prev_file, op.key)
        /\ result = "NoSuchKey" => file = prev_file
        /\ result \in {"Ok", "NoSuchKey"}

\* unset arr.0, an element of an array that is there, failed
C21_Witness ==
    /\ op.cmd = "unset"
    /\ op.key = <<"arr", "0">>
    /\ get_key(prev_file, op.key).result = "Ok"
    /\ ParentNoTable(prev_file, op.key)
    /\ result = "NoSuchKey"
    /\ file = prev_file

---------------------------------------------------------------------------
(* Renaming a repository to its own name, checked under Spec *)

\* C24: rename(a, a) with a a key of repos returns Ok, does not panic, and
\* leaves repos and default_repos as they were.
C24_RenameToItself ==
    (/\ op.cmd = "rename"
     /\ op.name = op.new_name
     /\ op.name \in DOMAIN prev_repos) =>
        /\ result = "Ok"
        /\ repos = prev_repos
        /\ default_repos = prev_default

\* rename(a, a) with a among the defaults, next to another repository
C24_Witness ==
    /\ op.cmd = "rename"
    /\ op.name = "a"
    /\ op.new_name = "a"
    /\ DOMAIN prev_repos = {"a", "b"}
    /\ prev_default = <<"b", "a">>
    /\ result = "Ok"
    /\ default_repos = <<"b", "a">>

---------------------------------------------------------------------------
(* A save whose serialization fails, checked under SpecSave *)

\* C26: when serializing the document fails in save_raw, the file still has
\* the content it had before the save.
C26_FailedSaveKeepsFile ==
    (op.cmd = "set" /\ result = "SerializeError") => file = prev_file

---------------------------------------------------------------------------
(* reset, checked under SpecMixed *)

\* C22: after config set, config unset and repo commands, a reset that
\* succeeded left the serialized defaults on disk and nothing else: no
\* repository, no key the user set, no unknown section; get of such a key
\* fails; a reset of a file that holds the defaults leaves it as it is; and
\* reset only fails on a file that cannot be opened.
C22_ResetRestoresDefaults ==
    op.cmd = "reset" =>
        /\ result = "Ok" =>
              /\ file = Tbl([cli     |-> Tbl([prompt |-> Bool(FALSE)]),
                             sandbox |-> Tbl([type |-> Str("chroot")]),
                             repo    |-> Tbl([default |-> Arr(<<>>)])])
              /\ file = DefaultDocument
              /\ get_key(file, <<"extra">>).result = "NoSuchKey"
              /\ prev_file = DefaultDocument => file = prev_file
        /\ prev_file # Unreadable => result = "Ok"

\* reset of a file in which `repo add a` and `config set extra 42` had left
\* a repository and an unknown key
C22_Witness ==
    /\ op.cmd = "reset"
    /\ result = "Ok"
    /\ get_key(prev_file, <<"extra">>).value = Int(42)
    /\ get_key(prev_file, <<"repo", "a", "type">>).value = Str("dummy")
    /\ get_key(prev_file, <<"cli", "prompt">>).value = Bool(FALSE)
    /\ file = DefaultDocument

---------------------------------------------------------------------------
(* Saving and loading the registry, checked under SpecNames *)

\* C25: the registry a repo command saved loads again as the same repos map
\* and the same default_repos sequence, whatever the repositories are
\* called, "default" included.
C25_RegistryRoundTrips ==
    (op.cmd \in SavingCmds /\ result = "Ok") =>
        /\ Config_load(file).result = "Ok"
        /\ Config_load(file).config.repo.repos = repos
        /\ Config_load(file).config.repo.default_repos = default_repos

---------------------------------------------------------------------------
(* Two commands at the same time, checked under SpecRace *)

Wrote(p) == \E i \in DOMAIN procs.events : procs.events[i] = <<p, "write">>

\* both commands loaded before either opened the file for its save
BothLoadedFirst ==
    /\ \A p \in Procs : \E i \in DOMAIN procs.events : procs.events[i] = <<p, "load">>
    /\ \A i, j \in DOMAIN procs.events :
          (procs.events[i][2] = "load" /\ procs.events[j][2] = "open") => i < j

\* the process of the last step
LastWriter == procs.events[Len(procs.events)][1]

\* the repositories a typed load finds in the file f
Registry(f) == Config_load(f).config.repo.repos

\* C23: when two commands both load before either saves and both save, the
\* file is in the end what the later writer alone would have saved from the
\* file both loaded: of any other name, the earlier writer's included, the
\* file says what it said before the two commands.
C23_LastWriterWins ==
    (/\ \A p \in Procs : procs.of[p].pc = "done" /\ Wrote(p)
     /\ BothLoadedFirst
     /\ file # Garbled) =>
        LET w  == procs.of[LastWriter]
            f0 == w.read
        IN  /\ \A p \in Procs : procs.of[p].read = f0
            /\ file = RunCommand(f0, w.cmd, w.name).doc
            /\ \A n \in CmdNames \ {w.name} :
                  n \in DOMAIN Registry(file) <=> n \in DOMAIN Registry(f0)

\* `repo add a` and `repo add dummy` with no file: both load, the first
\* saves a, the second saves dummy, and a is not in the file
C23_Witness ==
    /\ procs.events = << <<1, "load">>, <<2, "load">>, <<1, "open">>, <<1, "write">>,
                         <<2, "open">>, <<2, "write">> >>
    /\ procs.of[1].cmd = "add" /\ procs.of[1].name = "a" /\ procs.of[1].result = "Ok"
    /\ procs.of[2].cmd = "add" /\ procs.of[2].name = "dummy" /\ procs.of[2].result = "Ok"
    /\ procs.of[1].read = Absent
    /\ "a" \in DOMAIN Registry(procs.of[1].doc)
    /\ "a" \notin DOMAIN Registry(file)
    /\ "dummy" \in DOMAIN Registry(file)

====
